---- MODULE Spec2Model ----
(***************************************************************************)
(* TrajOpt (sequential convex optimization) of                             *)
(* algorithms/trajopt/implementation/trajopt.py.                           *)
(*                                                                         *)
(* Two specifications:                                                     *)
(*   Spec     the driver TrajOpt.solve on one-dimensional problems, one    *)
(*            action per step of its three nested loops;                   *)
(*   SpecAsm  the assembler TrajOpt.convexify_problem as a function of its *)
(*            inputs, for decision vectors of length 1..MaxN.              *)
(*                                                                         *)
(* Floats are modelled by exact rationals <<num, den>> in lowest terms,    *)
(* den > 0; <<1,0>>, <<-1,0>> and <<0,0>> are +inf, -inf and nan.          *)
(***************************************************************************)
EXTENDS Integers, Sequences, FiniteSets, TLC

\* ------------------------------------------------------------------------
\* Float arithmetic (exact rationals with inf / nan)
\* ------------------------------------------------------------------------

Abs(i) == IF i < 0 THEN -i ELSE i

Sign(i) == IF i < 0 THEN -1 ELSE IF i > 0 THEN 1 ELSE 0

RECURSIVE GCD(_, _)
GCD(a, b) == IF b = 0 THEN a ELSE GCD(b, a % b)

\* The float num/den; den = 0 yields +inf, -inf or nan as numpy does.
Rat(n, d) ==
    IF d = 0 THEN <<Sign(n), 0>>
    ELSE LET g == GCD(Abs(n), Abs(d))
             sg == IF d < 0 THEN -1 ELSE 1
         IN  <<(sg * n) \div g, (sg * d) \div g>>

RI(i) == <<i, 1>>

PosInf == <<1, 0>>

NegInf == <<-1, 0>>

IsNan(a) == a[1] = 0 /\ a[2] = 0

IsFinite(a) == a[2] # 0

\* Sums, products and comparisons divide the common factors out first, to
\* keep the intermediate integers small.
RAdd(a, b) ==
    IF IsFinite(a) /\ IsFinite(b)
    THEN LET g == GCD(a[2], b[2])
         IN  Rat(a[1] * (b[2] \div g) + b[1] * (a[2] \div g), (a[2] \div g) * b[2])
    ELSE IF IsNan(a) \/ IsNan(b) THEN <<0, 0>>
    ELSE IF IsFinite(a) THEN b
    ELSE IF IsFinite(b) THEN a
    ELSE IF a = b THEN a ELSE <<0, 0>>

RNeg(a) == <<-a[1], a[2]>>

RSub(a, b) == RAdd(a, RNeg(b))

RMul(a, b) ==
    IF IsFinite(a) /\ IsFinite(b)
    THEN LET g1 == GCD(Abs(a[1]), b[2])
             g2 == GCD(Abs(b[1]), a[2])
         IN  Rat((a[1] \div g1) * (b[1] \div g2), (a[2] \div g2) * (b[2] \div g1))
    ELSE <<Sign(a[1]) * Sign(b[1]), 0>>

\* numpy float64 division: x / 0 is +-inf, 0 / 0 is nan, no exception.
RDiv(a, b) ==
    IF IsFinite(a) /\ IsFinite(b) THEN Rat(a[1] * b[2], a[2] * b[1])
    ELSE <<0, 0>>

\* Comparisons: every comparison with nan is false.
RLt(a, b) ==
    /\ ~IsNan(a)
    /\ ~IsNan(b)
    /\ IF IsFinite(a) /\ IsFinite(b)
       THEN LET g == GCD(a[2], b[2])
            IN  a[1] * (b[2] \div g) < b[1] * (a[2] \div g)
       ELSE IF IsFinite(a) THEN b[1] > 0
       ELSE IF IsFinite(b) THEN a[1] < 0
       ELSE a[1] < b[1]

RLe(a, b) == ~IsNan(a) /\ ~IsNan(b) /\ (a = b \/ RLt(a, b))

RGt(a, b) == RLt(b, a)

\* Python's max(a, b): a unless b > a.
RMax(a, b) == IF RGt(b, a) THEN b ELSE a

RAbs(a) == <<Abs(a[1]), a[2]>>

RHalf == <<1, 2>>

RZero == <<0, 1>>

ROne == <<1, 1>>

\* ------------------------------------------------------------------------
\* Dense vectors and matrices (sequences, sequences of rows)
\* ------------------------------------------------------------------------

RECURSIVE SumSeq(_)
SumSeq(v) == IF v = <<>> THEN RZero ELSE RAdd(v[1], SumSeq(Tail(v)))

Zeros(m) == [j \in 1..m |-> RZero]

Full(m, val) == [j \in 1..m |-> val]

ZerosMat(r, c) == [i \in 1..r |-> Zeros(c)]

Eye(m) == [i \in 1..m |-> [j \in 1..m |-> IF i = j THEN ROne ELSE RZero]]

Dot(u, v) == SumSeq([j \in 1..Len(u) |-> RMul(u[j], v[j])])

MatVec(M, v) == [i \in 1..Len(M) |-> Dot(M[i], v)]

\* np.dot(x, M) for a vector x and a square matrix M.
VecMat(v, M) == [j \in 1..Len(v) |-> SumSeq([i \in 1..Len(v) |-> RMul(v[i], M[i][j])])]

VAdd(u, v) == [j \in 1..Len(u) |-> RAdd(u[j], v[j])]

VSub(u, v) == [j \in 1..Len(u) |-> RSub(u[j], v[j])]

VScale(a, v) == [j \in 1..Len(v) |-> RMul(a, v[j])]

MAdd(M, K) == [i \in 1..Len(M) |-> VAdd(M[i], K[i])]

MScale(a, M) == [i \in 1..Len(M) |-> VScale(a, M[i])]

Transpose(M) == [i \in 1..Len(M) |-> [j \in 1..Len(M) |-> M[j][i]]]

\* np.hstack on two matrices with the same number of rows.
HStackMat(M, K) == [i \in 1..Len(M) |-> M[i] \o K[i]]

\* ------------------------------------------------------------------------
\* numpy arrays with their rank: [nd |-> number of axes, v |-> the data]
\*   nd = 0  v a float;           nd = 1  v a sequence;
\*   nd = 2  v a sequence of rows; nd = 3  v[i] the slice [:, :, i]
\* ------------------------------------------------------------------------

Arr(nd, v) == [nd |-> nd, v |-> v]

Size(arr) == IF arr.nd = 0 THEN 1 ELSE Len(arr.v)

\* W @ x for a Jacobian W (one row, or a matrix) and a vector x.
MatMulX(W, x) == IF W.nd = 1 THEN Arr(0, Dot(W.v, x)) ELSE Arr(1, MatVec(W.v, x))

ArrSub(a, b) == IF a.nd = 0 THEN Arr(0, RSub(a.v, b.v)) ELSE Arr(1, VSub(a.v, b.v))

\* np.atleast_1d / np.atleast_2d, applied by np.hstack / np.vstack.
AtLeast1d(arr) == IF arr.nd = 0 THEN <<arr.v>> ELSE arr.v

AtLeast2d(arr) == IF arr.nd = 1 THEN <<arr.v>> ELSE arr.v

\* ------------------------------------------------------------------------
\* Function handles (value, grad, hess)
\*   cost        f(x)   = sum_j  a[j] x_j + w[j] x_j^2
\*   constraint  g_i(x) = sum_j  a[i][j] x_j + w[i][j] x_j^2  -  b[i]
\* A constraint set of size 1 returns a scalar, a gradient vector and a
\* Hessian matrix; a set of size k > 1 returns a vector, a k x n Jacobian
\* and an (n, n, k) Hessian tensor.
\* ------------------------------------------------------------------------

NoFn == [some |-> FALSE, k |-> 0, a |-> <<>>, w |-> <<>>, b |-> <<>>]

Sq(r) == RMul(r, r)

CostValue(cf, x) ==
    SumSeq([j \in 1..Len(x) |->
        RAdd(RMul(RI(cf.a[j]), x[j]), RMul(RI(cf.w[j]), Sq(x[j])))])

CostGrad(cf, x) ==
    [j \in 1..Len(x) |-> RAdd(RI(cf.a[j]), RMul(RI(2 * cf.w[j]), x[j]))]

CostHess(cf, x) ==
    [i \in 1..Len(x) |-> [j \in 1..Len(x) |->
        IF i = j THEN RI(2 * cf.w[j]) ELSE RZero]]

ConValueAt(fn, i, x) ==
    RSub(SumSeq([j \in 1..Len(x) |->
            RAdd(RMul(RI(fn.a[i][j]), x[j]), RMul(RI(fn.w[i][j]), Sq(x[j])))]),
         RI(fn.b[i]))

ConGradAt(fn, i, x) ==
    [j \in 1..Len(x) |-> RAdd(RI(fn.a[i][j]), RMul(RI(2 * fn.w[i][j]), x[j]))]

ConHessAt(fn, i, x) ==
    [r \in 1..Len(x) |-> [j \in 1..Len(x) |->
        IF r = j THEN RI(2 * fn.w[i][j]) ELSE RZero]]

FnValue(fn, x) ==
    IF fn.k = 1 THEN Arr(0, ConValueAt(fn, 1, x))
    ELSE Arr(1, [i \in 1..fn.k |-> ConValueAt(fn, i, x)])

FnGrad(fn, x) ==
    IF fn.k = 1 THEN Arr(1, ConGradAt(fn, 1, x))
    ELSE Arr(2, [i \in 1..fn.k |-> ConGradAt(fn, i, x)])

FnHess(fn, x) ==
    IF fn.k = 1 THEN Arr(2, ConHessAt(fn, 1, x))
    ELSE Arr(3, [i \in 1..fn.k |-> ConHessAt(fn, i, x)])

\* ------------------------------------------------------------------------
\* TrajOpt.convexify_problem
\* The assembly state: err ("none" or the exception raised), the
\* accumulators W, q, A (rows), lb, ub, the column count of A (A.shape[1],
\* kept apart because A may have no rows) and the two slack counts.
\* ------------------------------------------------------------------------

AsmStart(n) ==
    [err |-> "none", W |-> ZerosMat(n, n), q |-> Zeros(n), A |-> <<>>,
     cols |-> n, lb |-> <<>>, ub |-> <<>>, mg |-> 0, mh |-> 0]

Raise(st, e) == [st EXCEPT !.err = e]

\* The rank / shape assertions on a constraint set's value and gradient.
ShapesOk(val, grad, n) ==
    IF Size(val) = 1
    THEN val.nd = 0 /\ grad.nd = 1 /\ Len(grad.v) = n
    ELSE /\ val.nd = 1
         /\ grad.nd = 2
         /\ Len(grad.v) = Size(val)
         /\ \A i \in 1..Len(grad.v) : Len(grad.v[i]) = n

\* np.vstack((A, rows)): every row must have A.shape[1] entries.
RowsFit(rows, cols) == \A i \in 1..Len(rows) : Len(rows[i]) = cols

\* np.hstack((A, np.zeros((A.shape[0], m)))).
PadColumns(st, m) ==
    [st EXCEPT !.A = [i \in 1..Len(st.A) |-> st.A[i] \o Zeros(m)], !.cols = @ + m]

AsmLinIneq(st, fn, x, n) ==
    IF st.err # "none" \/ ~fn.some THEN st
    ELSE LET lg0 == FnValue(fn, x)
             W_lg == FnGrad(fn, x)
             ub_lg == ArrSub(MatMulX(W_lg, x), lg0)
             A_lg == AtLeast2d(W_lg)
         IN  IF ~ShapesOk(lg0, W_lg, n) THEN Raise(st, "AssertionError")
             \* len(ub_lg) of a 0-d value
             ELSE IF ub_lg.nd = 0 THEN Raise(st, "TypeError")
             ELSE IF ~RowsFit(A_lg, st.cols) THEN Raise(st, "ValueError")
             ELSE [st EXCEPT !.A = @ \o A_lg,
                             !.lb = @ \o Full(Len(ub_lg.v), NegInf),
                             !.ub = @ \o ub_lg.v]

AsmLinEq(st, fn, x, n) ==
    IF st.err # "none" \/ ~fn.some THEN st
    ELSE LET lh0 == FnValue(fn, x)
             W_lh == FnGrad(fn, x)
             b_lh == AtLeast1d(ArrSub(MatMulX(W_lh, x), lh0))
             A_lh == AtLeast2d(W_lh)
         IN  IF ~ShapesOk(lh0, W_lh, n) THEN Raise(st, "AssertionError")
             ELSE IF ~RowsFit(A_lh, st.cols) THEN Raise(st, "ValueError")
             ELSE [st EXCEPT !.A = @ \o A_lh, !.lb = @ \o b_lh, !.ub = @ \o b_lh]

\* W += mu * omega ; q -= 0.5 * mu * np.dot(x, omega + omega.T)
AccumulateHess(st, omega, mu, x) ==
    [st EXCEPT !.W = MAdd(@, MScale(mu, omega)),
               !.q = VSub(@, VScale(RMul(RHalf, mu),
                                    VecMat(x, MAdd(omega, Transpose(omega)))))]

RECURSIVE AccumulateSlices(_, _, _, _, _, _)
AccumulateSlices(st, slices, i, last, mu, x) ==
    IF i > last THEN st
    ELSE AccumulateSlices(AccumulateHess(st, slices[i], mu, x), slices, i + 1, last, mu, x)

\* The number of Hessian slices the tensor loop visits: for i in range(n).
HessLoopCount(n, num) == n

\* The second-order block, for a family of num constraints.
AsmSecondOrder(st, Omega, num, n, mu, x) ==
    IF num = 1
    THEN IF Omega.nd # 2 THEN Raise(st, "AssertionError")
         ELSE AccumulateHess(st, Omega.v, mu, x)
    ELSE IF Omega.nd # 3 \/ Len(Omega.v) # num THEN Raise(st, "AssertionError")
         \* Omega[:, :, i] with i >= num
         ELSE IF HessLoopCount(n, num) > num THEN Raise(st, "IndexError")
         ELSE AccumulateSlices(st, Omega.v, 1, HessLoopCount(n, num), mu, x)

AsmNlIneq(st, fn, x, n, mu, second_order) ==
    IF st.err # "none" \/ ~fn.some THEN st
    ELSE LET nlg0 == FnValue(fn, x)
             W_nlg == FnGrad(fn, x)
             num == Size(nlg0)
             padded == [PadColumns(st, num) EXCEPT !.mg = num]
             ub_nlg == AtLeast1d(ArrSub(MatMulX(W_nlg, x), nlg0))
             A_nlg_aux == MScale(RI(-1), Eye(num))
             A_nlg == IF num = 1 THEN <<W_nlg.v \o <<A_nlg_aux[1][1]>>>>
                      ELSE HStackMat(W_nlg.v, A_nlg_aux)
             rows == [padded EXCEPT !.A = @ \o A_nlg,
                                    !.lb = @ \o Full(Len(ub_nlg), NegInf),
                                    !.ub = @ \o ub_nlg]
         IN  IF ~ShapesOk(nlg0, W_nlg, n) THEN Raise(st, "AssertionError")
             ELSE IF ~RowsFit(A_nlg, padded.cols) THEN Raise(st, "ValueError")
             ELSE IF second_order THEN AsmSecondOrder(rows, FnHess(fn, x), num, n, mu, x)
             ELSE rows

\* A_nlh[i, i] = 1.0 ; A_nlh[i, i + num] = -1.0 on the rows of the Jacobian
\* (0-based i): both column indices must be below the Jacobian's n columns.
SlackMarksInRange(num, n) == \A i \in 0..(num - 1) : i < n /\ i + num < n

MarkSlackInJacobian(J, num) ==
    [r \in 1..Len(J) |-> [j \in 1..Len(J[r]) |->
        IF j = r THEN ROne ELSE IF j = r + num THEN RI(-1) ELSE J[r][j]]]

AsmNlEq(st, fn, x, n, mu, second_order) ==
    IF st.err # "none" \/ ~fn.some THEN st
    ELSE LET nlh0 == FnValue(fn, x)
             W_nlh == FnGrad(fn, x)
             num == Size(nlh0)
             padded == [PadColumns(st, 2 * num) EXCEPT !.mh = num]
             b_nlh == AtLeast1d(ArrSub(MatMulX(W_nlh, x), nlh0))
             A_nlh_aux == ZerosMat(num, 2 * num)
             A_nlh == HStackMat(MarkSlackInJacobian(W_nlh.v, num), A_nlh_aux)
             rows == [padded EXCEPT !.A = @ \o A_nlh, !.lb = @ \o b_nlh, !.ub = @ \o b_nlh]
         IN  IF ~ShapesOk(nlh0, W_nlh, n) THEN Raise(st, "AssertionError")
             \* two indices into the gradient vector of a single constraint
             ELSE IF W_nlh.nd = 1 THEN Raise(st, "IndexError")
             ELSE IF ~SlackMarksInRange(num, n) THEN Raise(st, "IndexError")
             ELSE IF ~RowsFit(A_nlh, padded.cols) THEN Raise(st, "ValueError")
             ELSE IF second_order THEN AsmSecondOrder(rows, FnHess(fn, x), num, n, mu, x)
             ELSE rows

\* The slack bounds with the identity written to the leading columns.
AsmSlackLeading(st, n) ==
    IF st.err # "none" THEN st
    ELSE LET num_slack_variables == st.mg + 2 * st.mh
         IN  IF st.cols # n + num_slack_variables THEN Raise(st, "AssertionError")
             ELSE [st EXCEPT !.A = @ \o HStackMat(Eye(num_slack_variables),
                                                  ZerosMat(num_slack_variables, n)),
                             !.lb = @ \o Zeros(num_slack_variables),
                             !.ub = @ \o Full(num_slack_variables, PosInf)]

\* The slack bounds t_g, t_h, s_h >= 0.
AsmSlack(st, n) ==
    IF st.err # "none" THEN st
    ELSE LET num_slack_variables == st.mg + 2 * st.mh
             num_total_variables == n + num_slack_variables
             A_slack_bounds == HStackMat(ZerosMat(num_slack_variables, n),
                                         Eye(num_slack_variables))
         IN  IF st.cols # num_total_variables THEN Raise(st, "AssertionError")
             ELSE [st EXCEPT !.A = @ \o A_slack_bounds,
                             !.lb = @ \o Zeros(num_slack_variables),
                             !.ub = @ \o Full(num_slack_variables, PosInf)]

\* P[:n, :n] = W + W_f, zero elsewhere.
ExpandP(M, n, total) ==
    [i \in 1..total |-> [j \in 1..total |->
        IF i <= n /\ j <= n THEN M[i][j] ELSE RZero]]

AsmCost(st, cf, x, n, mu) ==
    IF st.err # "none" THEN [err |-> st.err]
    ELSE LET num_slack_variables == st.mg + 2 * st.mh
             num_total_variables == n + num_slack_variables
             omega_f == CostGrad(cf, x)
             W_f == CostHess(cf, x)
             P == ExpandP(MAdd(st.W, W_f), n, num_total_variables)
             qx == VAdd(st.q, VSub(omega_f,
                        VScale(RHalf, MatVec(MAdd(W_f, Transpose(W_f)), x))))
             q == qx \o Full(num_slack_variables, mu)
         IN  IF Len(q) # num_total_variables THEN [err |-> "AssertionError"]
             ELSE [err |-> "none", P |-> P, q |-> q, A |-> st.A, cols |-> st.cols,
                   lb |-> st.lb, ub |-> st.ub]

\* prob: [cost, lg, lh, nlg, nlh], the handles given to TrajOpt. The result is
\* [err |-> e] when the call raises e, and the QPInputs (with err = "none")
\* when it returns.
convexify_problem(prob, params, x, s, mu) ==
    LET n == Len(x)
        s1 == AsmLinIneq(AsmStart(n), prob.lg, x, n)
        s2 == AsmLinEq(s1, prob.lh, x, n)
        s3 == AsmNlIneq(s2, prob.nlg, x, n, mu, params.second_order_inequalities)
        s4 == AsmNlEq(s3, prob.nlh, x, n, mu, params.second_order_equalities)
        s5 == AsmSlack(s4, n)
    IN  IF ~RGt(s, RZero) THEN [err |-> "AssertionError"]
        ELSE AsmCost(s5, prob.cost, x, n, mu)

\* What a call returns that falls off the end of the function body.
ReturnsNone == [none |-> TRUE]

\* TrajOpt.incorporate_trust_region_and_penalties: builds the QP data with
\* the box x - s <= x <= x + s appended, binds it to locals only, and ends
\* without a return statement.
incorporate_trust_region_and_penalties(x, qp_inputs, s, mu) ==
    LET lb_trust == [j \in 1..Len(x) |-> RSub(x[j], s)]
        ub_trust == [j \in 1..Len(x) |-> RAdd(x[j], s)]
        n == Len(x)
        num_total_variables == qp_inputs.cols
        A_trust_bounds == HStackMat(Eye(n), ZerosMat(n, num_total_variables - n))
        A == qp_inputs.A \o A_trust_bounds
        lb == qp_inputs.lb \o lb_trust
        ub == qp_inputs.ub \o ub_trust
    IN  ReturnsNone

\* ------------------------------------------------------------------------
\* The QP solver behind solve_qp / is_qp_solved, for a one-dimensional x:
\*     minimize 0.5 z'Pz + q'z  subject to  lb <= Az <= ub,   z = (x, slacks)
\* solved exactly. Each slack t_j is eliminated at its optimum: the least
\* value allowed by the rows that couple it to x (a x - t_j <= ub) and by its
\* own bound (t_j >= lb). What is left is a convex piecewise quadratic in x,
\* minimal at a stationary point of a piece, at a kink or at a bound.
\* ------------------------------------------------------------------------

SlackCols(qp) == 2..qp.cols

RowIsPureX(qp, r) == \A j \in SlackCols(qp) : qp.A[r][j] = RZero

RowCouples(qp, r, j) == qp.A[r][j] = RI(-1) /\ qp.lb[r] = NegInf

RowBoundsSlack(qp, r, j) == qp.A[r][j] = ROne /\ qp.A[r][1] = RZero

RECURSIVE MaxOver(_, _)
MaxOver(v, floor) == IF v = <<>> THEN floor ELSE RMax(v[1], MaxOver(Tail(v), floor))

\* The least feasible value of slack column j at x.
SlackAt(qp, j, x1) ==
    MaxOver([r \in 1..Len(qp.A) |->
                IF RowCouples(qp, r, j) THEN RSub(RMul(qp.A[r][1], x1), qp.ub[r])
                ELSE IF RowBoundsSlack(qp, r, j) THEN qp.lb[r]
                ELSE NegInf],
            NegInf)

QPObjective(qp, x1) ==
    RAdd(RAdd(RMul(RHalf, RMul(qp.P[1][1], Sq(x1))), RMul(qp.q[1], x1)),
         SumSeq([j \in 1..(qp.cols - 1) |-> RMul(qp.q[j + 1], SlackAt(qp, j + 1, x1))]))

QPFeasible(qp, x1) ==
    \A r \in 1..Len(qp.A) :
        RowIsPureX(qp, r) =>
            /\ RLe(qp.lb[r], RMul(qp.A[r][1], x1))
            /\ RLe(RMul(qp.A[r][1], x1), qp.ub[r])

CoupledRows(qp) == {r \in 1..Len(qp.A) : \E j \in SlackCols(qp) : RowCouples(qp, r, j)}

SlackOfRow(qp, r) == CHOOSE j \in SlackCols(qp) : RowCouples(qp, r, j)

\* The slope the penalty rows in S add to the objective.
PenaltySlope(qp, S) ==
    SumSeq([r \in 1..Len(qp.A) |->
        IF r \in S THEN RMul(qp.q[SlackOfRow(qp, r)], qp.A[r][1]) ELSE RZero])

QPCandidates(qp) ==
    LET stationary ==
            IF RGt(qp.P[1][1], RZero)
            THEN {RDiv(RNeg(RAdd(qp.q[1], PenaltySlope(qp, S))), qp.P[1][1]) :
                    S \in SUBSET CoupledRows(qp)}
            ELSE {}
        kinks == {RDiv(qp.ub[r], qp.A[r][1]) : r \in CoupledRows(qp)}
        bounds == {RDiv(qp.lb[r], qp.A[r][1]) : r \in {i \in 1..Len(qp.A) : RowIsPureX(qp, i)}}
                  \cup {RDiv(qp.ub[r], qp.A[r][1]) : r \in {i \in 1..Len(qp.A) : RowIsPureX(qp, i)}}
    IN  {c \in stationary \cup kinks \cup bounds : IsFinite(c) /\ QPFeasible(qp, c)}

\* x is bounded above (below) by a row on x alone.
BoundedAbove(qp) ==
    \E r \in 1..Len(qp.A) :
        /\ RowIsPureX(qp, r)
        /\ \/ RGt(qp.A[r][1], RZero) /\ IsFinite(qp.ub[r])
           \/ RLt(qp.A[r][1], RZero) /\ IsFinite(qp.lb[r])

BoundedBelow(qp) ==
    \E r \in 1..Len(qp.A) :
        /\ RowIsPureX(qp, r)
        /\ \/ RGt(qp.A[r][1], RZero) /\ IsFinite(qp.lb[r])
           \/ RLt(qp.A[r][1], RZero) /\ IsFinite(qp.ub[r])

\* The objective has a minimum: convex, and not decreasing without bound.
QPHasMinimum(qp) ==
    /\ RLe(RZero, qp.P[1][1])
    /\ \A j \in SlackCols(qp) : RLe(RZero, qp.q[j])
    /\ \/ RGt(qp.P[1][1], RZero)
       \/ /\ \/ BoundedAbove(qp)
             \/ RLe(RZero, RAdd(qp.q[1], PenaltySlope(qp,
                        {r \in CoupledRows(qp) : RGt(qp.A[r][1], RZero)})))
          /\ \/ BoundedBelow(qp)
             \/ RLe(RAdd(qp.q[1], PenaltySlope(qp,
                        {r \in CoupledRows(qp) : RLt(qp.A[r][1], RZero)})), RZero)

QPMinimizers(qp) ==
    {c \in QPCandidates(qp) :
        \A d \in QPCandidates(qp) : RLe(QPObjective(qp, c), QPObjective(qp, d))}

\* The solver's results: "solved" with a primal solution z, or "unsolved"
\* (non-convex, infeasible or unbounded problem).
solve_qp(qp) ==
    IF QPHasMinimum(qp) /\ QPMinimizers(qp) # {}
    THEN {[status |-> "solved",
           x |-> <<c>> \o [j \in 1..(qp.cols - 1) |-> SlackAt(qp, j + 1, c)]] :
            c \in QPMinimizers(qp)}
    ELSE {[status |-> "unsolved", x |-> <<>>]}

is_qp_solved(osqp_results) == osqp_results.status = "solved"

\* ------------------------------------------------------------------------
\* TrajOpt: the helpers of solve
\* ------------------------------------------------------------------------

\* The outcomes of compute_convexified_x: the first size_x components of the
\* solution, or the AtiumOptError it raises.
compute_convexified_x(qp_inputs, size_x) ==
    {IF is_qp_solved(r) THEN [err |-> "none", x |-> SubSeq(r.x, 1, size_x)]
     ELSE [err |-> "AtiumOptError", x |-> <<>>] : r \in solve_qp(qp_inputs)}

convexified_cost_fn(prob, x, new_x) ==
    LET f0 == CostValue(prob.cost, x)
        omega == CostGrad(prob.cost, x)
        W == CostHess(prob.cost, x)
        delta_x == VSub(new_x, x)
    IN  RAdd(RAdd(f0, Dot(omega, delta_x)),
             RMul(RHalf, Dot(delta_x, MatVec(W, delta_x))))

true_improve(prob, x, new_x) == RSub(CostValue(prob.cost, x), CostValue(prob.cost, new_x))

model_improve(prob, x, new_x) ==
    RSub(CostValue(prob.cost, x), convexified_cost_fn(prob, x, new_x))

is_improvement(prob, c, x, new_x) ==
    RGt(RDiv(true_improve(prob, x, new_x), model_improve(prob, x, new_x)), c)

\* np.linalg.norm(new_x - x) < x_tol, compared squared (x_tol >= 0 here).
NormBelow(v, tol) == RLt(RZero, tol) /\ RLt(Dot(v, v), Sq(tol))

is_converged(prob, params, x, new_x) ==
    LET x_converged == NormBelow(VSub(new_x, x), params.x_tol)
        f_converged == RLt(RAbs(RSub(CostValue(prob.cost, new_x), CostValue(prob.cost, x))),
                           params.f_tol)
    IN  x_converged \/ f_converged

\* np.all(fn(x) <= c_tol)
AllBelow(fn, x, c_tol) == \A i \in 1..fn.k : RLe(ConValueAt(fn, i, x), c_tol)

\* np.allclose(fn(x), 0.0, atol=c_tol)
AllClose(fn, x, c_tol) == \A i \in 1..fn.k : RLe(RAbs(ConValueAt(fn, i, x)), c_tol)

\* A test that takes an absent family for a violated one.
are_constraints_required(prob, params, x) ==
    /\ prob.lg.some /\ AllBelow(prob.lg, x, params.c_tol)
    /\ prob.lh.some /\ AllClose(prob.lh, x, params.c_tol)
    /\ prob.nlg.some /\ AllBelow(prob.nlg, x, params.c_tol)
    /\ prob.nlh.some /\ AllClose(prob.nlh, x, params.c_tol)

are_constraints_satisfied(prob, params, x) ==
    /\ prob.lg.some => AllBelow(prob.lg, x, params.c_tol)
    /\ prob.lh.some => AllClose(prob.lh, x, params.c_tol)
    /\ prob.nlg.some => AllBelow(prob.nlg, x, params.c_tol)
    /\ prob.nlh.some => AllClose(prob.nlh, x, params.c_tol)

\* ------------------------------------------------------------------------
\* The problems and parameters solve is run on (one-dimensional x)
\* ------------------------------------------------------------------------

\* max_iter ranges over 0..MaxIter.
MaxIter == 2

\* A run is followed for at most MaxQP calls of the QP solver.
MaxQP == 10

\* x^2 - 2 t x, minimal at t.
QuadCost(t) == [a |-> <<-2 * t>>, w |-> <<1>>]

\* x
LinCost == [a |-> <<1>>, w |-> <<0>>]

\* One constraint a x + w x^2 - b.
Single(a, w, b) == [some |-> TRUE, k |-> 1, a |-> <<<<a>>>>, w |-> <<<<w>>>>, b |-> <<b>>]

\* Two linear constraints x - hi <= 0, lo - x <= 0.
Box(lo, hi) ==
    [some |-> TRUE, k |-> 2, a |-> <<<<1>>, <<-1>>>>, w |-> <<<<0>>, <<0>>>>, b |-> <<hi, -lo>>]

Problem(cost, lg, lh, nlg, nlh) ==
    [cost |-> cost, lg |-> lg, lh |-> lh, nlg |-> nlg, nlh |-> nlh]

Setups ==
    { [name |-> "quadratic", so |-> TRUE,
       prob |-> Problem(QuadCost(1), NoFn, NoFn, NoFn, NoFn)],
      [name |-> "quadratic, x = 2", so |-> TRUE,
       prob |-> Problem(QuadCost(0), NoFn, Single(1, 0, 2), NoFn, NoFn)],
      [name |-> "quadratic, 1 <= x <= 2", so |-> TRUE,
       prob |-> Problem(QuadCost(0), Box(1, 2), NoFn, NoFn, NoFn)],
      [name |-> "quadratic, x <= 1", so |-> TRUE,
       prob |-> Problem(QuadCost(0), Single(1, 0, 1), NoFn, NoFn, NoFn)],
      [name |-> "quadratic, 2 <= x <= 1", so |-> TRUE,
       prob |-> Problem(QuadCost(0), Box(2, 1), NoFn, NoFn, NoFn)],
      [name |-> "linear", so |-> TRUE,
       prob |-> Problem(LinCost, NoFn, NoFn, NoFn, NoFn)],
      [name |-> "linear, x^2 <= 1", so |-> TRUE,
       prob |-> Problem(LinCost, NoFn, NoFn, Single(0, 1, 1), NoFn)],
      [name |-> "quadratic, x^2 + 1 <= 0", so |-> TRUE,
       prob |-> Problem(QuadCost(1), NoFn, NoFn, Single(0, 1, -1), NoFn)],
      [name |-> "quadratic, x^2 <= 1, first order", so |-> FALSE,
       prob |-> Problem(QuadCost(0), NoFn, NoFn, Single(0, 1, 1), NoFn)],
      [name |-> "quadratic, 4 <= x as a nonlinear constraint", so |-> TRUE,
       prob |-> Problem(QuadCost(0), NoFn, NoFn, Single(-1, 0, -4), NoFn)],
      [name |-> "quadratic, 1 <= 0, first order", so |-> FALSE,
       prob |-> Problem(QuadCost(1), NoFn, NoFn, Single(0, 0, -1), NoFn)],
      [name |-> "quadratic, x^2 + 1 = 0", so |-> TRUE,
       prob |-> Problem(QuadCost(1), NoFn, NoFn, NoFn, Single(0, 1, -1))] }

Guesses == {<<RI(i)>> : i \in {-1, 0, 2}}

\* What the parameter comments and the validator note ask of a TrajOptParams.
ValidTrust(p) == RGt(p.s_0, RZero)

ValidGrowth(p) == RGt(p.tau_plus, ROne)

ValidShrink(p) == RGt(p.tau_minus, RZero) /\ RLt(p.tau_minus, ROne)

ValidPenalty(p) == RGt(p.k, ROne)

ValidParams(p) == ValidTrust(p) /\ ValidGrowth(p) /\ ValidShrink(p) /\ ValidPenalty(p)

InvalidCount(p) ==
    Cardinality({i \in 1..4 : ~<<ValidTrust(p), ValidGrowth(p), ValidShrink(p), ValidPenalty(p)>>[i]})

\* The parameter bundles tried: valid ones, and ones with a single invalid value.
ParamSets ==
    {p \in [mu_0 : {ROne, RI(3)},
            s_0 : {RZero, <<1, 4>>, ROne, RI(2)},
            c : {<<1, 10>>},
            tau_plus : {ROne, <<3, 2>>},
            tau_minus : {RHalf, ROne},
            k : {ROne, RI(2)},
            f_tol : {RHalf, RI(2)},
            x_tol : {RHalf},
            c_tol : {<<1, 10>>},
            max_iter : 0..MaxIter,
            second_order_inequalities : BOOLEAN,
            second_order_equalities : BOOLEAN] : InvalidCount(p) <= 1}

\* The floor of the trust size after an accepted step.
TrustFloor == 1

\* ------------------------------------------------------------------------
\* State
\* ------------------------------------------------------------------------

VARIABLES
    params,             \* TrajOpt.params
    prob,               \* the cost and constraint handles of the TrajOpt
    initial_guess_x,    \* the argument of solve
    pc,                 \* where solve is
    x, new_x, s, updated_s, mu, improvement,
    trust_region_size_below_threshold,
    penalty_iter, convexify_iter, trust_region_iter,
    result,             \* result.entries
    log,                \* the last message solve printed about its outcome
    outcome,            \* what the caller of solve got
    qp_calls,           \* the number of calls of solve_qp so far
    asm_in, asm_out,    \* SpecAsm: the inputs and the result of convexify_problem
    trust_out           \* SpecAsm: what incorporate_trust_region_and_penalties returned

vars ==
    <<params, prob, initial_guess_x, pc, x, new_x, s, updated_s, mu, improvement,
      trust_region_size_below_threshold, penalty_iter, convexify_iter,
      trust_region_iter, result, log, outcome, qp_calls, asm_in, asm_out, trust_out>>

None == <<>>

TrajOptEntry(p_iter, c_iter, t_iter, min_x, cost, size, updated_size, improved, below, factor) ==
    [penalty_iter |-> p_iter, convexify_iter |-> c_iter, trust_region_iter |-> t_iter,
     min_x |-> min_x, cost |-> cost, trust_region_size |-> size,
     updated_trust_region_size |-> updated_size, improvement |-> improved,
     trust_region_size_below_threshold |-> below, penalty_factor |-> factor,
     updated_penalty_factor |-> None]

\* record_entry putting the new entry first.
record_entry_first(entries, entry) == <<entry>> \o entries

\* TrajOptResult.record_entry
record_entry(entries, entry) == Append(entries, entry)

\* TrajOptResult.solution_x
solution_x(entries) == entries[Len(entries)].min_x

Running == [kind |-> "none", error |-> "none", entries |-> None]

Returned(entries) == [kind |-> "returned", error |-> "none", entries |-> entries]

Raised(e) == [kind |-> "raised", error |-> e, entries |-> None]

Init ==
    /\ \E su \in Setups :
         /\ prob = su.prob
         /\ params \in {p \in ParamSets :
                          /\ p.second_order_inequalities = su.so
                          /\ p.second_order_equalities = su.so}
    /\ initial_guess_x \in Guesses
    /\ pc = "constructed"
    /\ x = None
    /\ new_x = None
    /\ s = RZero
    /\ updated_s = RZero
    /\ mu = RZero
    /\ improvement = FALSE
    /\ trust_region_size_below_threshold = FALSE
    /\ penalty_iter = 0
    /\ convexify_iter = 0
    /\ trust_region_iter = 0
    /\ result = <<>>
    /\ log = "none"
    /\ outcome = Running
    /\ qp_calls = 0
    /\ asm_in = None
    /\ asm_out = None
    /\ trust_out = None

\* ------------------------------------------------------------------------
\* TrajOpt.solve, one action per step
\* ------------------------------------------------------------------------

asm_vars == <<asm_in, asm_out, trust_out>>

problem_vars == <<params, prob, initial_guess_x>>

\* The statements before the loops, and the entry into the penalty loop.
SolveBegin ==
    /\ pc = "constructed"
    /\ x' = initial_guess_x
    /\ s' = params.s_0
    /\ mu' = params.mu_0
    /\ new_x' = initial_guess_x
    /\ updated_s' = params.s_0
    /\ improvement' = TRUE
    /\ result' = record_entry(<<>>,
            TrajOptEntry(0, 0, 0, initial_guess_x, CostValue(prob.cost, initial_guess_x),
                         params.s_0, params.s_0, TRUE, FALSE, params.mu_0))
    /\ penalty_iter' = 0
    /\ convexify_iter' = 0
    /\ trust_region_iter' = 0
    /\ trust_region_size_below_threshold' = FALSE
    /\ pc' = IF params.max_iter > 0 THEN "trust_region" ELSE "exhausted"
    /\ UNCHANGED <<problem_vars, log, outcome, qp_calls, asm_vars>>

\* An exception leaves solve: the caller gets the exception and nothing else.
Escapes(e) ==
    /\ pc' = "done"
    /\ outcome' = Raised(e)
    /\ UNCHANGED <<new_x, updated_s, improvement, trust_region_size_below_threshold,
                   trust_region_iter, result>>

\* The grown trust size without its floor.
GrownTrustUnfloored(size) == RMul(params.tau_plus, size)

\* The trust size after a candidate was accepted / rejected.
GrownTrust(size) == RMax(RMul(params.tau_plus, size), RI(TrustFloor))

\* The shrunk trust size kept above the floor of the grown one.
ShrunkTrustFloored(size) == RMax(RMul(params.tau_minus, size), RI(TrustFloor))

ShrunkTrust(size) == RMul(params.tau_minus, size)

\* The threshold test with <= in place of <.
BelowThresholdInclusive(size) == RLe(size, params.x_tol)

\* if updated_s < self.params.x_tol
BelowThreshold(size) == RLt(size, params.x_tol)

\* The candidate cand of the QP at (x', s') was computed: the rest of the
\* body of the trust-region loop.
Candidate(cand) ==
    LET cost == CostValue(prob.cost, cand)
        improved == is_improvement(prob, params.c, x', cand)
        shrunk == ShrunkTrust(s')
    IN  /\ new_x' = cand
        /\ improvement' = improved
        /\ outcome' = outcome
        /\ IF improved
           THEN /\ updated_s' = GrownTrust(s')
                /\ pc' = "convexify_check"
                /\ UNCHANGED <<trust_region_size_below_threshold, trust_region_iter, result>>
           ELSE /\ updated_s' = shrunk
                /\ IF BelowThreshold(shrunk)
                   THEN /\ trust_region_size_below_threshold' = TRUE
                        /\ pc' = "convexify_check"
                        /\ UNCHANGED <<trust_region_iter, result>>
                   ELSE /\ result' = record_entry(result,
                                TrajOptEntry(penalty_iter, convexify_iter, trust_region_iter,
                                             cand, cost, s', shrunk, improved,
                                             trust_region_size_below_threshold, mu))
                        /\ trust_region_iter' = trust_region_iter + 1
                        /\ pc' = "trust_region"
                        /\ UNCHANGED trust_region_size_below_threshold

\* if improvement: x = new_x
LinearizationPoint == IF improvement THEN new_x ELSE x

\* One pass through the body of the trust-region loop. (The body also waits
\* for a line on standard input, which is taken to arrive.)
TrustRegionStep ==
    /\ pc = "trust_region"
    /\ qp_calls < MaxQP
    /\ x' = LinearizationPoint
    /\ s' = updated_s
    /\ \E qp_inputs \in {convexify_problem(prob, params, LinearizationPoint, updated_s, mu)} :
           IF qp_inputs.err # "none"
           THEN /\ Escapes(qp_inputs.err)
                /\ qp_calls' = qp_calls
           ELSE /\ qp_calls' = qp_calls + 1
                /\ \E r \in compute_convexified_x(qp_inputs, Len(initial_guess_x)) :
                      IF r.err # "none" THEN Escapes(r.err) ELSE Candidate(r.x)
    /\ UNCHANGED <<problem_vars, mu, penalty_iter, convexify_iter, log, asm_vars>>

\* The test that ends the convexification loop.
ConvexifyCheck ==
    /\ pc = "convexify_check"
    /\ IF trust_region_size_below_threshold \/ is_converged(prob, params, x, new_x)
       THEN /\ pc' = "penalty_check"
            /\ UNCHANGED <<convexify_iter, trust_region_iter,
                           trust_region_size_below_threshold>>
       ELSE /\ pc' = "trust_region"
            /\ convexify_iter' = convexify_iter + 1
            /\ trust_region_iter' = 0
            /\ trust_region_size_below_threshold' = FALSE
    /\ UNCHANGED <<problem_vars, x, new_x, s, updated_s, mu, improvement, penalty_iter,
                   result, log, outcome, qp_calls, asm_vars>>

\* attr.evolve(result[-1], updated_penalty_factor=mu)
SetUpdatedPenalty(entries, factor) ==
    [entries EXCEPT ![Len(entries)].updated_penalty_factor = factor]

\* The penalty raised by k rather than multiplied by it.
NextPenaltyAdded(factor) == RAdd(params.k, factor)

\* The penalty after a penalty iteration that left the constraints violated.
NextPenalty(factor) == RMul(params.k, factor)

\* A penalty loop over range(max_iter + 1).
LoopContinuesInclusive(p_iter) == p_iter + 1 <= params.max_iter

\* The penalty loop runs for penalty_iter in range(max_iter).
LoopContinues(p_iter) == p_iter + 1 < params.max_iter

\* The end of a penalty iteration: the constraint test, the penalty update
\* and the step of the penalty loop.
PenaltyCheck ==
    /\ pc = "penalty_check"
    /\ IF are_constraints_satisfied(prob, params, new_x)
       THEN /\ log' = "TrajOpt found a solution!"
            /\ pc' = "return"
            /\ UNCHANGED <<mu, improvement, result, penalty_iter, convexify_iter,
                           trust_region_iter, trust_region_size_below_threshold>>
       ELSE /\ mu' = NextPenalty(mu)
            /\ improvement' = FALSE
            /\ result' = SetUpdatedPenalty(result, NextPenalty(mu))
            /\ log' = log
            /\ IF LoopContinues(penalty_iter)
               THEN /\ penalty_iter' = penalty_iter + 1
                    /\ convexify_iter' = 0
                    /\ trust_region_iter' = 0
                    /\ trust_region_size_below_threshold' = FALSE
                    /\ pc' = "trust_region"
               ELSE /\ pc' = "exhausted"
                    /\ UNCHANGED <<penalty_iter, convexify_iter, trust_region_iter,
                                   trust_region_size_below_threshold>>
    /\ UNCHANGED <<problem_vars, x, new_x, s, updated_s, outcome, qp_calls, asm_vars>>

\* The else branch of the penalty loop: the notice that no solution was found
\* within max_iter iterations is printed (log keeps its fixed part).
LoopExhausted ==
    /\ pc = "exhausted"
    /\ log' = "TrajOpt failed to find a solution"
    /\ pc' = "return"
    /\ UNCHANGED <<problem_vars, x, new_x, s, updated_s, mu, improvement,
                   trust_region_size_below_threshold, penalty_iter, convexify_iter,
                   trust_region_iter, result, outcome, qp_calls, asm_vars>>

\* return result
Return ==
    /\ pc = "return"
    /\ outcome' = Returned(result)
    /\ pc' = "done"
    /\ UNCHANGED <<problem_vars, x, new_x, s, updated_s, mu, improvement,
                   trust_region_size_below_threshold, penalty_iter, convexify_iter,
                   trust_region_iter, result, log, qp_calls, asm_vars>>

Next == SolveBegin \/ TrustRegionStep \/ ConvexifyCheck \/ PenaltyCheck \/ LoopExhausted \/ Return

Spec == Init /\ [][Next]_vars

\* Where solve can be.
Positions == {"constructed", "trust_region", "convexify_check", "penalty_check",
              "exhausted", "return", "done", "assembler"}

\* solve has a next step: the guards of the actions of Next.
Runnable == pc \notin {"done", "assembler"} /\ (pc = "trust_region" => qp_calls < MaxQP)

\* solve moves on. Every step of Next changes pc or trust_region_iter, and
\* Next has a step exactly where Runnable holds, so that fairness of Advance
\* is fairness of Next, with an enabling condition that needs no QP.
Advance == Runnable /\ pc' \in Positions /\ trust_region_iter' \in 0..MaxQP

\* solve keeps running: the interpreter takes the next step of solve whenever
\* there is one (the QP solver returns, the line on standard input arrives).
SpecLive == Init /\ [][Next]_vars /\ WF_<<pc, trust_region_iter>>(Advance)

\* ------------------------------------------------------------------------
\* SpecAsm: convexify_problem on its own
\* ------------------------------------------------------------------------

\* The decision vector has 1..MaxN components.
MaxN == 4

\* A constraint family is absent or has 1..MaxK constraints.
MaxK == 2

\* A family of k constraints on n variables, all coefficients distinct;
\* quadratic terms only in a non-linear family.
Family(k, n, nonlinear) ==
    IF k = 0 THEN NoFn
    ELSE [some |-> TRUE, k |-> k,
          a |-> [i \in 1..k |-> [j \in 1..n |-> 2 * i + j]],
          w |-> [i \in 1..k |-> [j \in 1..n |-> IF nonlinear THEN i ELSE 0]],
          b |-> [i \in 1..k |-> i]]

AsmProblem(n, k_lg, k_lh, k_nlg, k_nlh) ==
    Problem([a |-> [j \in 1..n |-> -2], w |-> [j \in 1..n |-> 1]],
            Family(k_lg, n, FALSE), Family(k_lh, n, FALSE),
            Family(k_nlg, n, TRUE), Family(k_nlh, n, TRUE))

AsmInputs ==
    [n : 1..MaxN, k_lg : 0..MaxK, k_lh : 0..MaxK, k_nlg : 0..MaxK, k_nlh : 0..MaxK,
     s : {RZero, RHalf}, mu : {RI(3)},
     second_order_inequalities : BOOLEAN, second_order_equalities : BOOLEAN]

AsmPoint(n) == [j \in 1..n |-> RI(j)]

InitAsm ==
    /\ asm_in \in AsmInputs
    /\ asm_out = None
    /\ trust_out = None
    /\ params = None
    /\ prob = None
    /\ initial_guess_x = None
    /\ pc = "assembler"
    /\ x = None
    /\ new_x = None
    /\ s = RZero
    /\ updated_s = RZero
    /\ mu = RZero
    /\ improvement = FALSE
    /\ trust_region_size_below_threshold = FALSE
    /\ penalty_iter = 0
    /\ convexify_iter = 0
    /\ trust_region_iter = 0
    /\ result = <<>>
    /\ log = "none"
    /\ outcome = Running
    /\ qp_calls = 0

\* One call convexify_problem(x, s, mu) on a TrajOpt with the given handles.
Convexify ==
    /\ pc = "assembler"
    /\ asm_out = None
    /\ asm_out' = convexify_problem(
            AsmProblem(asm_in.n, asm_in.k_lg, asm_in.k_lh, asm_in.k_nlg, asm_in.k_nlh),
            asm_in, AsmPoint(asm_in.n), asm_in.s, asm_in.mu)
    /\ UNCHANGED <<problem_vars, pc, x, new_x, s, updated_s, mu, improvement,
                   trust_region_size_below_threshold, penalty_iter, convexify_iter,
                   trust_region_iter, result, log, outcome, qp_calls, asm_in, trust_out>>

\* One call incorporate_trust_region_and_penalties(x, qp_inputs, s, mu) on the
\* QPInputs convexify_problem returned.
IncorporateTrustRegion ==
    /\ pc = "assembler"
    /\ asm_out # None
    /\ asm_out.err = "none"
    /\ trust_out = None
    /\ trust_out' = [ret |-> incorporate_trust_region_and_penalties(
                                AsmPoint(asm_in.n), asm_out, asm_in.s, asm_in.mu)]
    /\ UNCHANGED <<problem_vars, pc, x, new_x, s, updated_s, mu, improvement,
                   trust_region_size_below_threshold, penalty_iter, convexify_iter,
                   trust_region_iter, result, log, outcome, qp_calls, asm_in, asm_out>>

NextAsm == Convexify \/ IncorporateTrustRegion

SpecAsm == InitAsm /\ [][NextAsm]_vars

\* ------------------------------------------------------------------------
\* Properties of solve
\* ------------------------------------------------------------------------

\* b^e
RECURSIVE RPow(_, _)
RPow(b, e) == IF e = 0 THEN ROne ELSE RMul(b, RPow(b, e - 1))

\* The caller got the trace back.
SolveReturned == pc = "done" /\ outcome.kind = "returned"

NoConstraints(pr) == ~pr.lg.some /\ ~pr.lh.some /\ ~pr.nlg.some /\ ~pr.nlh.some

NoNonlinearConstraints(pr) == ~pr.nlg.some /\ ~pr.nlh.some

ConvexQuadraticCost(pr) == \A j \in 1..Len(pr.cost.w) : pr.cost.w[j] > 0

\* x satisfies the linear constraints exactly.
LinearFeasible(pr, pt) ==
    /\ \A i \in 1..pr.lg.k : RLe(ConValueAt(pr.lg, i, pt), RZero)
    /\ \A i \in 1..pr.lh.k : ConValueAt(pr.lh, i, pt) = RZero

\* The minimizer of a one-dimensional convex quadratic over linear
\* constraints: the stationary point or an end of the feasible interval.
MinimizerCandidates(pr) ==
    {pt \in {<<Rat(-pr.cost.a[1], 2 * pr.cost.w[1])>>}
            \cup {<<Rat(pr.lg.b[i], pr.lg.a[i][1])>> : i \in {r \in 1..pr.lg.k : pr.lg.a[r][1] # 0}}
            \cup {<<Rat(pr.lh.b[i], pr.lh.a[i][1])>> : i \in {r \in 1..pr.lh.k : pr.lh.a[r][1] # 0}} :
        LinearFeasible(pr, pt)}

ClosedFormMinimizers(pr) ==
    {pt \in MinimizerCandidates(pr) :
        \A other \in MinimizerCandidates(pr) :
            RLe(CostValue(pr.cost, pt), CostValue(pr.cost, other))}

Within(pt, target, tol) ==
    \A j \in 1..Len(target) : RLe(RAbs(RSub(pt[j], target[j])), tol)

\* C1: for a feasible problem with a convex quadratic cost and no nonlinear
\* constraints, solve returns during penalty iteration 0 with mu never
\* increased, and solution_x() of the returned trace is the closed-form
\* constrained minimizer (up to c_tol), whatever the initial guess.
C1_QuadraticSolvedInFirstPenaltyIteration ==
    (/\ SolveReturned
     /\ ValidParams(params)
     /\ params.max_iter >= 1
     /\ ConvexQuadraticCost(prob)
     /\ NoNonlinearConstraints(prob)
     /\ ClosedFormMinimizers(prob) # {})
    => /\ penalty_iter = 0
       /\ mu = params.mu_0
       /\ \E target \in ClosedFormMinimizers(prob) :
              Within(solution_x(outcome.entries), target, params.c_tol)

\* C2: an unsolved QP never ends solve with an exception: whenever the
\* solver error occurred, the caller still got a returned outcome holding
\* the trace recorded so far.
C2_UnsolvedQPReturnsTrace ==
    outcome.error = "AtiumOptError"
    => outcome.kind = "returned" /\ outcome.entries = result

\* C3: when the constraint test fails at the end of every penalty
\* iteration, the penalty loop ends after exactly max_iter iterations (its
\* last iteration is max_iter - 1, and mu was multiplied max_iter times),
\* and solve then returns the trace: exhaustion raises nothing.
C3_ExhaustionReturnsTrace ==
    /\ pc = "exhausted" /\ params.max_iter > 0
       => /\ penalty_iter = params.max_iter - 1
          /\ mu = RMul(params.mu_0, RPow(params.k, params.max_iter))
          /\ ~are_constraints_satisfied(prob, params, new_x)
    /\ log = "TrajOpt failed to find a solution"
       => /\ pc \in {"return", "done"}
          /\ outcome.kind # "raised"
          /\ pc = "done" => outcome = Returned(result) /\ Len(result) >= 1

\* A run of two penalty iterations, both failing, returned its trace.
C3_Witness ==
    /\ SolveReturned
    /\ log = "TrajOpt failed to find a solution"
    /\ params.max_iter = 2
    /\ penalty_iter = 1
    /\ qp_calls >= 2

\* C4: an invalid configuration (s_0 <= 0, tau_plus <= 1, tau_minus outside
\* (0, 1) or k <= 1) is rejected before any QP is solved.
C4_InvalidConfigurationRejected ==
    ~ValidParams(params) => qp_calls = 0 /\ outcome.kind # "returned"

InLoops == pc \in {"trust_region", "convexify_check", "penalty_check"}

PenaltyPre == RGt(params.mu_0, RZero) /\ ValidPenalty(params)

\* C5: with mu_0 > 0 and k > 1, mu starts at mu_0, is multiplied by k exactly
\* when the constraint test at the end of a penalty iteration fails, and
\* changes at no other step; so during penalty iteration p it is mu_0 * k^p,
\* every entry recorded in iteration p carries penalty_factor mu_0 * k^p, and
\* penalty_factor never decreases along the trace.
C5_PenaltyGrowsByK ==
    /\ [](PenaltyPre /\ pc # "constructed"
          => /\ InLoops => mu = RMul(params.mu_0, RPow(params.k, penalty_iter))
             /\ RLe(params.mu_0, mu)
             /\ \A i \in 1..Len(result) :
                    result[i].penalty_factor
                        = RMul(params.mu_0, RPow(params.k, result[i].penalty_iter))
             /\ \A i \in 1..(Len(result) - 1) :
                    RLe(result[i].penalty_factor, result[i + 1].penalty_factor))
    /\ [][PenaltyPre
          => \/ mu' = mu
             \/ pc = "constructed" /\ mu' = params.mu_0
             \/ /\ pc = "penalty_check"
                /\ ~are_constraints_satisfied(prob, params, new_x)
                /\ mu' = RMul(params.k, mu)]_vars

\* An entry recorded in a later penalty iteration, under the raised penalty.
C5_Witness ==
    /\ PenaltyPre
    /\ \E i \in 1..Len(result) :
           /\ result[i].penalty_iter = 1
           /\ result[i].penalty_factor = RMul(params.k, params.mu_0)
           /\ RGt(result[i].penalty_factor, result[1].penalty_factor)

IterationTriple(e) == <<e.penalty_iter, e.convexify_iter, e.trust_region_iter>>

LexLe(a, b) ==
    \/ a[1] < b[1]
    \/ a[1] = b[1] /\ a[2] < b[2]
    \/ a[1] = b[1] /\ a[2] = b[2] /\ a[3] <= b[3]

\* The same entry, whatever its updated_penalty_factor.
SameRecording(e1, e2) ==
    [e1 EXCEPT !.updated_penalty_factor = None] = [e2 EXCEPT !.updated_penalty_factor = None]

\* C6: along the trace the triple (penalty_iter, convexify_iter,
\* trust_region_iter) never decreases in lexicographic order, and every step
\* of solve keeps the entries already recorded in their places: entries are
\* only added at the end, none is removed or inserted before another.
C6_EntriesAppendedInIterationOrder ==
    /\ [](\A i \in 1..(Len(result) - 1) :
              LexLe(IterationTriple(result[i]), IterationTriple(result[i + 1])))
    /\ [][/\ Len(result') \in {Len(result), Len(result) + 1}
          /\ \A i \in 1..Len(result) : SameRecording(result'[i], result[i])]_vars

\* A trace with entries of two penalty iterations and of a later trust-region
\* iteration.
C6_Witness ==
    /\ Len(result) >= 3
    /\ \E i \in 1..Len(result) : result[i].penalty_iter >= 1
    /\ \E i \in 1..Len(result) : result[i].trust_region_iter >= 1
    /\ \E i \in 1..Len(result) : result[i].convexify_iter >= 1

\* C7: when solve exhausts max_iter penalty iterations without a candidate
\* satisfying the constraints, the last entry of the returned trace was
\* recorded in the last penalty iteration: its penalty_factor is
\* mu_0 * k^(max_iter - 1).
C7_FinalEntryCarriesLastPenalty ==
    (/\ SolveReturned
     /\ log = "TrajOpt failed to find a solution"
     /\ ValidParams(params)
     /\ params.max_iter >= 1)
    => LET last == outcome.entries[Len(outcome.entries)]
       IN  /\ last.penalty_iter = params.max_iter - 1
           /\ last.penalty_factor = RMul(params.mu_0, RPow(params.k, params.max_iter - 1))

\* The initial trust size is positive and below x_tol, tau_minus in (0, 1).
SmallTrustPre ==
    ValidTrust(params) /\ RLt(params.s_0, params.x_tol) /\ ValidShrink(params)

InitialCost == CostValue(prob.cost, initial_guess_x)

\* C8 as stated: with s_0 < x_tol the first trust-region iteration marks
\* trust_region_size_below_threshold, no second QP is solved in that penalty
\* iteration, and the last trace entry's cost is cost(x0).
C8_SmallTrustEndsFirstIteration ==
    (/\ SmallTrustPre
     /\ ValidParams(params)
     /\ pc # "constructed"
     /\ outcome.kind # "raised"
     /\ penalty_iter = 0)
    => /\ qp_calls <= 1
       /\ qp_calls = 1 => trust_region_size_below_threshold
       /\ result[Len(result)].cost = InitialCost

\* C8 amended: with s_0 < x_tol, the first trust-region iteration marks
\* trust_region_size_below_threshold exactly when its candidate is rejected;
\* the convexification loop then exits without recording an entry or solving
\* another QP, so the trace holds only the initial entry, of cost cost(x0).
\* When the candidate is accepted nothing is marked and the trust size
\* becomes max(tau_plus * s_0, 1).
C8_RejectedSmallStepEndsIteration ==
    SmallTrustPre /\ penalty_iter = 0
    => /\ (InLoops /\ qp_calls = 1)
          => IF improvement
             THEN /\ ~trust_region_size_below_threshold
                  /\ updated_s = GrownTrust(params.s_0)
             ELSE /\ trust_region_size_below_threshold
                  /\ pc # "trust_region"
                  /\ updated_s = RMul(params.tau_minus, params.s_0)
       /\ (trust_region_size_below_threshold /\ convexify_iter = 0 /\ trust_region_iter = 0)
          => /\ qp_calls = 1
             /\ Len(result) = 1
             /\ result[1].cost = InitialCost

\* The first candidate was rejected and the convexification loop exited.
C8_Witness ==
    /\ SmallTrustPre
    /\ pc = "penalty_check"
    /\ penalty_iter = 0
    /\ qp_calls = 1
    /\ ~improvement
    /\ trust_region_size_below_threshold
    /\ Len(result) = 1

\* C9: with all four constraint handles absent, are_constraints_satisfied is
\* true of every x; so whenever the convexification loop exits, solve ends
\* with success, in penalty iteration 0, mu is never multiplied and no entry
\* ever gets an updated_penalty_factor.
C9_UnconstrainedEndsInFirstPenaltyIteration ==
    NoConstraints(prob)
    => /\ \A pt \in (Guesses \cup {new_x, x}) \ {None} : are_constraints_satisfied(prob, params, pt)
       /\ penalty_iter = 0
       /\ pc # "constructed" => mu = params.mu_0
       /\ \A i \in 1..Len(result) : result[i].updated_penalty_factor = None
       /\ (pc \in {"return", "done"} /\ outcome.kind # "raised" /\ params.max_iter >= 1)
          => log = "TrajOpt found a solution!"
       /\ pc = "exhausted" => params.max_iter = 0

\* An unconstrained solve that returned with success after some QPs.
C9_Witness ==
    /\ NoConstraints(prob)
    /\ SolveReturned
    /\ log = "TrajOpt found a solution!"
    /\ qp_calls >= 2

\* ------------------------------------------------------------------------
\* Properties of convexify_problem
\* ------------------------------------------------------------------------

\* C10: for every combination of absent and present constraint families of
\* any size, convexify_problem with s > 0 returns QPInputs with
\* A.shape[1] = len(q) = n + m_g + 2 m_h, P square of that size, and lb, ub
\* as long as A has rows.
C10_AssemblyCompletesWithConsistentShapes ==
    (asm_out # None /\ RGt(asm_in.s, RZero))
    => /\ asm_out.err = "none"
       /\ LET total == asm_in.n + asm_in.k_nlg + 2 * asm_in.k_nlh
          IN  /\ asm_out.cols = total
              /\ Len(asm_out.q) = total
              /\ Len(asm_out.P) = total
              /\ \A r \in 1..Len(asm_out.P) : Len(asm_out.P[r]) = total
              /\ \A r \in 1..Len(asm_out.A) : Len(asm_out.A[r]) = total
              /\ Len(asm_out.lb) = Len(asm_out.A)
              /\ Len(asm_out.ub) = Len(asm_out.A)

\* The TrajOpt convexify_problem was called on, and its linearization point.
AsmProb == AsmProblem(asm_in.n, asm_in.k_lg, asm_in.k_lh, asm_in.k_nlg, asm_in.k_nlh)

AsmX == AsmPoint(asm_in.n)

AsmReturned == asm_out # None /\ asm_out.err = "none"

SlackCount == asm_in.k_nlg + 2 * asm_in.k_nlh

\* C11: the rows appended for nonlinear equalities h of size m_h are
\* [grad h(x) | 0 | -I | +I]: row i holds the Jacobian row of h_i on the x
\* columns, -1 on t_h[i], +1 on s_h[i] and 0 on every other slack column, with
\* lb = ub = grad h_i(x) . x - h_i(x).
C11_EqualityRowsCoupleSlacks ==
    (AsmReturned /\ asm_in.k_nlh >= 1)
    => \A i \in 1..asm_in.k_nlh :
          LET r == asm_in.k_lg + asm_in.k_lh + asm_in.k_nlg + i
              grad == ConGradAt(AsmProb.nlh, i, AsmX)
              t_h == asm_in.n + asm_in.k_nlg + i
              s_h == asm_in.n + asm_in.k_nlg + asm_in.k_nlh + i
              b == RSub(Dot(grad, AsmX), ConValueAt(AsmProb.nlh, i, AsmX))
          IN  /\ \A j \in 1..(asm_in.n + SlackCount) :
                     asm_out.A[r][j] = IF j <= asm_in.n THEN grad[j]
                                       ELSE IF j = t_h THEN RI(-1)
                                       ELSE IF j = s_h THEN ROne
                                       ELSE RZero
              /\ asm_out.lb[r] = b
              /\ asm_out.ub[r] = b

\* The sum of the Hessians of all constraints of a family.
HessianSum(fn, pt) ==
    [r \in 1..Len(pt) |-> [c \in 1..Len(pt) |->
        SumSeq([i \in 1..fn.k |-> ConHessAt(fn, i, pt)[r][c]])]]

\* The second-order terms of the families whose expansion is enabled.
EnabledHessianSum ==
    MAdd(IF asm_in.second_order_inequalities
         THEN HessianSum(AsmProb.nlg, AsmX) ELSE ZerosMat(asm_in.n, asm_in.n),
         IF asm_in.second_order_equalities
         THEN HessianSum(AsmProb.nlh, AsmX) ELSE ZerosMat(asm_in.n, asm_in.n))

SecondOrderUsed ==
    \/ asm_in.k_nlg >= 1 /\ asm_in.second_order_inequalities
    \/ asm_in.k_nlh >= 1 /\ asm_in.second_order_equalities

\* C12: with second-order expansion enabled, every constraint i = 0..m-1 of
\* the family adds mu * Omega_i to W and subtracts
\* 0.5 * mu * (Omega_i + Omega_i^T) x from q exactly once, whatever n and m:
\* the returned P and q hold the sums over all m constraints.
C12_SecondOrderTermsOfEveryConstraint ==
    (AsmReturned /\ SecondOrderUsed)
    => LET W_f == CostHess(AsmProb.cost, AsmX)
           Om == EnabledHessianSum
           q_f == VSub(CostGrad(AsmProb.cost, AsmX),
                       VScale(RHalf, MatVec(MAdd(W_f, Transpose(W_f)), AsmX)))
           q_c == VScale(RMul(RHalf, asm_in.mu), MatVec(MAdd(Om, Transpose(Om)), AsmX))
       IN  /\ \A r \in 1..asm_in.n : \A c \in 1..asm_in.n :
                  asm_out.P[r][c] = RAdd(W_f[r][c], RMul(asm_in.mu, Om[r][c]))
           /\ \A j \in 1..asm_in.n : asm_out.q[j] = RSub(q_f[j], q_c[j])

\* C13: in every QPInputs convexify_problem returns, the last m_g + 2 m_h
\* rows of A are zero on the x columns and the identity on the slack columns,
\* with lb = 0 and ub = +inf; without nonlinear constraints A has the rows of
\* the linear constraints only.
C13_SlackRowsBoundSlacksBelow ==
    AsmReturned
    => /\ Len(asm_out.A) = asm_in.k_lg + asm_in.k_lh + asm_in.k_nlg + asm_in.k_nlh + SlackCount
       /\ \A i \in 1..SlackCount :
              LET r == Len(asm_out.A) - SlackCount + i
              IN  /\ \A j \in 1..(asm_in.n + SlackCount) :
                         asm_out.A[r][j] = IF j = asm_in.n + i THEN ROne ELSE RZero
                  /\ asm_out.lb[r] = RZero
                  /\ asm_out.ub[r] = PosInf

\* QPInputs with slack rows below rows of linear and nonlinear constraints.
C13_Witness ==
    /\ AsmReturned
    /\ asm_in.k_nlg = 2
    /\ asm_in.k_lh >= 1
    /\ asm_in.n >= 2

\* C14: incorporate_trust_region_and_penalties returns a new QPInputs: A is
\* the input's A with the n rows [I_n | 0] appended, lb and ub are extended by
\* x - s and x + s, P and q are the input's.
C14_AdapterReturnsBoxedQP ==
    trust_out # None
    => /\ trust_out.ret # ReturnsNone
       /\ trust_out.ret.P = asm_out.P
       /\ trust_out.ret.q = asm_out.q
       /\ trust_out.ret.A
            = asm_out.A \o HStackMat(Eye(asm_in.n), ZerosMat(asm_in.n, SlackCount))
       /\ trust_out.ret.lb = asm_out.lb \o [j \in 1..asm_in.n |-> RSub(AsmX[j], asm_in.s)]
       /\ trust_out.ret.ub = asm_out.ub \o [j \in 1..asm_in.n |-> RAdd(AsmX[j], asm_in.s)]

\* ------------------------------------------------------------------------
\* Properties of the trust-region loop
\* ------------------------------------------------------------------------

\* Between two QPs x, new_x and s are those of the last QP: whether its
\* candidate was accepted.
PrevAccepted == is_improvement(prob, params.c, x, new_x)

\* solve is about to assemble a QP, and has solved one before.
NextQP == pc = "trust_region" /\ qp_calls >= 1

\* The next QP is the first one of a penalty iteration after the first.
FirstOfLaterPenaltyIteration ==
    penalty_iter >= 1 /\ convexify_iter = 0 /\ trust_region_iter = 0

TrustStaysPositive ==
    (ValidTrust(params) /\ ValidShrink(params) /\ pc # "constructed")
    => RGt(s, RZero) /\ RGt(updated_s, RZero)

\* C15 as stated: after a rejected candidate the next QP is assembled at the
\* same x with trust size tau_minus * s, after an accepted candidate at
\* x = new_x with trust size max(tau_plus * s, 1.0); and with s_0 > 0 and
\* tau_minus in (0, 1) the trust size is always positive.
C15_NextQPFollowsUpdateRule ==
    /\ []TrustStaysPositive
    /\ [][(NextQP /\ ValidParams(params))
          => IF PrevAccepted
             THEN x' = new_x /\ s' = RMax(RMul(params.tau_plus, s), ROne)
             ELSE x' = x /\ s' = RMul(params.tau_minus, s)]_vars

\* C15 amended: the trust size of the next QP is tau_minus * s after a
\* rejected candidate and max(tau_plus * s, 1.0) after an accepted one, and it
\* is always positive when s_0 > 0 and tau_minus is in (0, 1). The next QP is
\* assembled at the same x after a rejection and at x = new_x after an
\* acceptance, except when the accepted candidate ended a penalty iteration
\* whose constraint test failed: the first QP of the next penalty iteration
\* is assembled at the unchanged x.
C15_TrustSizeFollowsUpdateRule ==
    /\ []TrustStaysPositive
    /\ [][NextQP
          => /\ s' = IF PrevAccepted
                     THEN RMax(RMul(params.tau_plus, s), ROne)
                     ELSE RMul(params.tau_minus, s)
             /\ x' = IF PrevAccepted /\ ~FirstOfLaterPenaltyIteration THEN new_x ELSE x
             /\ improvement <=> (PrevAccepted /\ ~FirstOfLaterPenaltyIteration)]_vars

\* The second QP of a solve, assembled at the accepted first candidate with
\* the floored trust size.
C15_Witness ==
    /\ ValidParams(params)
    /\ pc = "convexify_check"
    /\ penalty_iter = 0 /\ convexify_iter = 1 /\ trust_region_iter = 0
    /\ qp_calls = 2
    /\ x # initial_guess_x
    /\ RLt(RMul(params.tau_plus, params.s_0), ROne)
    /\ s = ROne

\* C16: when solve ends with success, solution_x() of the returned trace is
\* the final candidate new_x, which satisfies are_constraints_satisfied.
C16_SolutionIsFinalCandidate ==
    (SolveReturned /\ ValidParams(params) /\ log = "TrajOpt found a solution!")
    => /\ are_constraints_satisfied(prob, params, solution_x(outcome.entries))
       /\ solution_x(outcome.entries) = new_x

\* C17: with c > 0, a candidate is accepted only if the true cost strictly
\* decreased: cost_fn(new_x) < cost_fn(x).
C17_AcceptedStepDecreasesCost ==
    (ValidParams(params) /\ RGt(params.c, RZero) /\ pc = "convexify_check" /\ improvement)
    => RLt(CostValue(prob.cost, new_x), CostValue(prob.cost, x))

\* The preconditions of termination: tau_minus in (0, 1) and x_tol > 0.
ShrinkReachesThreshold == ValidShrink(params) /\ RGt(params.x_tol, RZero)

\* The entries recorded by the current run of the trust-region loop: one for
\* every rejection that did not end the run.
RunEntry(i) == result[Len(result) - trust_region_iter + i]

\* The trust size of the first QP of the current run.
RunStartSize == IF trust_region_iter = 0 THEN s ELSE RunEntry(1).trust_region_size

\* The rejections recorded in the current run shrank the trust size by
\* tau_minus each and none of them brought it below x_tol.
RejectionsBounded ==
    (ShrinkReachesThreshold /\ pc \in {"trust_region", "convexify_check"})
    => /\ trust_region_iter <= Len(result)
       /\ \A i \in 1..trust_region_iter :
             /\ RunEntry(i).penalty_iter = penalty_iter
             /\ RunEntry(i).convexify_iter = convexify_iter
             /\ RunEntry(i).trust_region_iter = i - 1
             /\ ~RunEntry(i).improvement
             /\ RunEntry(i).updated_trust_region_size
                    = RMul(RPow(params.tau_minus, i), RunStartSize)
             /\ ~RLt(RunEntry(i).updated_trust_region_size, params.x_tol)

\* The run is left at an accepted candidate or at the first rejection that
\* brings the trust size below x_tol.
RunLeftByAcceptanceOrThreshold ==
    (ShrinkReachesThreshold /\ pc = "convexify_check")
    => /\ improvement # trust_region_size_below_threshold
       /\ improvement => updated_s = RMax(RMul(params.tau_plus, s), ROne)
       /\ trust_region_size_below_threshold
              => /\ updated_s = RMul(RPow(params.tau_minus, trust_region_iter + 1),
                                     RunStartSize)
                 /\ RLt(updated_s, params.x_tol)

\* C18: with tau_minus in (0, 1), x_tol > 0 and every QP solved, each run of
\* the trust-region loop terminates: it is left at the first accepted
\* candidate or, after the smallest number j >= 1 of consecutive rejections
\* with tau_minus^j * s < x_tol, with trust_region_size_below_threshold set,
\* which ends the convexification loop.
C18_TrustRegionLoopTerminates ==
    /\ []RejectionsBounded
    /\ []RunLeftByAcceptanceOrThreshold
    /\ (pc = "trust_region" /\ ShrinkReachesThreshold)
           ~> (pc = "convexify_check" \/ outcome.kind = "raised")
    /\ [][(pc = "convexify_check" /\ trust_region_size_below_threshold)
          => pc' = "penalty_check"]_vars

\* A run left below the threshold after rejections that were recorded.
C18_Witness ==
    /\ ValidParams(params)
    /\ pc = "convexify_check"
    /\ trust_region_size_below_threshold
    /\ trust_region_iter >= 2

====
